---- MODULE Spec2Model ----
(***************************************************************************)
(* A model of the RAPPOR client library, client/python/rappor.py:          *)
(*   - Params.from_csv, row by row (specification SpecCsv);                *)
(*   - Encoder.encode with get_rappor_masks, SimpleRandom, get_bf_bit,     *)
(*     as whole calls on one Encoder (Spec) and on two Encoders that each  *)
(*     own a caller-supplied random.Random (SpecPair);                     *)
(*   - two encode calls on one Encoder run by two threads, one step per    *)
(*     call on the shared random.Random (SpecConc).                        *)
(*                                                                         *)
(* Python values.  Integers are unbounded; ~ and & and | follow two's      *)
(* complement on unbounded integers.  A str is a sequence of one-character *)
(* strings.  A float is a rational [num, den] with den > 0.  A             *)
(* random.Random instance is a cell of `heap`, its state a number in       *)
(* 0..RandMod-1; random() steps the state and returns state/RandMod.       *)
(***************************************************************************)
EXTENDS Integers, Sequences, FiniteSets, TLC

VARIABLES
  params,   \* the Params instance the Encoders were built with
  heap,     \* random.Random instances: reference -> generator state
  enc,      \* Encoder instances: id -> [user_id, rand_funcs, p_gen, q_gen]
  calls,    \* per Encoder, the words passed to encode so far
  last,     \* per Encoder, the locals of its latest encode call
  first,    \* per Encoder and word, the masks of the first encode of the word
  th,       \* per thread, the position and locals of its encode call
  csv,      \* the position and locals of a from_csv call
  heap0     \* the state each random.Random instance was created in

vars == <<params, heap, enc, calls, last, first, th, csv, heap0>>

---------------------------------------------------------------------------
(* Bounds of the model. *)

\* Largest num_bloombits the model draws.
MaxBits == 2
\* Number of encode calls per Encoder.
MaxCalls == 3
\* Number of states of a random.Random instance.
RandMod == 8
\* Largest number of rows of a from_csv input.
MaxRows == 3

---------------------------------------------------------------------------
(* Python integers, strings and floats. *)

RECURSIVE BitAnd(_, _)
\* x & y on unbounded two's-complement integers.
BitAnd(x, y) ==
  IF x = 0 \/ y = 0 THEN 0
  ELSE IF x = -1 THEN y
  ELSE IF y = -1 THEN x
  ELSE (x % 2) * (y % 2) + 2 * BitAnd(x \div 2, y \div 2)

RECURSIVE BitOr(_, _)
\* x | y on unbounded two's-complement integers.
BitOr(x, y) ==
  IF x = 0 THEN y
  ELSE IF y = 0 THEN x
  ELSE IF x = -1 \/ y = -1 THEN -1
  ELSE (IF x % 2 = 1 \/ y % 2 = 1 THEN 1 ELSE 0) + 2 * BitOr(x \div 2, y \div 2)

\* ~x
BitNot(x) == -x - 1

\* x << n
Shl(x, n) == x * 2^n

\* Bit i of x (two's complement).
Bit(x, i) == (x \div 2^i) % 2

OrdTable ==
  "0" :> 48 @@ "1" :> 49 @@ "2" :> 50 @@ "3" :> 51 @@ "4" :> 52 @@
  "5" :> 53 @@ "6" :> 54 @@ "7" :> 55 @@ "8" :> 56 @@ "9" :> 57 @@
  "u" :> 117 @@ "v" :> 118

\* ord(c)
Ord(c) == OrdTable[c]

DigitChars == <<"0", "1", "2", "3", "4", "5", "6", "7", "8", "9">>

RECURSIVE Str(_)
\* '%s' % n for an integer n >= 0.
Str(n) ==
  IF n < 10 THEN <<DigitChars[n + 1]>>
  ELSE Str(n \div 10) \o <<DigitChars[(n % 10) + 1]>>

\* A float as a rational.
Float(n, d) == [num |-> n, den |-> d]

\* a < b, a <= b, a = b on floats.
FloatLt(a, b) == a.num * b.den < b.num * a.den
FloatLe(a, b) == a.num * b.den <= b.num * a.den
FloatEq(a, b) == a.num * b.den = b.num * a.den

Digits == {"0", "1", "2", "3", "4", "5", "6", "7", "8", "9"}

RECURSIVE DigitsValue(_, _)
\* The number a run of decimal digits writes, continuing from acc.
DigitsValue(str, acc) ==
  IF str = <<>> THEN acc
  ELSE DigitsValue(Tail(str), acc * 10 + (Ord(Head(str)) - 48))

\* str without a leading sign, and the sign.
Unsigned(str) == IF str # <<>> /\ Head(str) \in {"-", "+"} THEN Tail(str) ELSE str
Sign(str) == IF str # <<>> /\ Head(str) = "-" THEN -1 ELSE 1

\* int(str) for a str without blanks: [ok |-> FALSE] stands for ValueError.
ParseInt(str) ==
  LET body == Unsigned(str)
  IN IF body # <<>> /\ \A i \in 1..Len(body) : body[i] \in Digits
     THEN [ok |-> TRUE, val |-> Sign(str) * DigitsValue(body, 0)]
     ELSE [ok |-> FALSE, val |-> 0]

\* float(str) for decimal notation without blanks or exponent:
\* [ok |-> FALSE] stands for ValueError.
ParseFloat(str) ==
  LET body == Unsigned(str)
      dots == {i \in 1..Len(body) : body[i] = "."}
      dot == IF dots = {} THEN Len(body) + 1 ELSE CHOOSE i \in dots : TRUE
      whole == SubSeq(body, 1, dot - 1)
      frac == SubSeq(body, dot + 1, Len(body))
  IN IF /\ Cardinality(dots) <= 1
        /\ Len(whole) + Len(frac) > 0
        /\ \A i \in 1..Len(body) : body[i] \in Digits \cup {"."}
     THEN [ok |-> TRUE,
           val |-> Float(Sign(str) * DigitsValue(whole \o frac, 0), 10^Len(frac))]
     ELSE [ok |-> FALSE, val |-> Float(0, 1)]

---------------------------------------------------------------------------
(* random.Random and hashlib.sha1. *)

\* One step of the generator: the state after one random() call.
RandomStep(s) == (5 * s + 3) % RandMod

\* The float random() returns when it leaves the generator in state s.
RandomValue(s) == Float(s, RandMod)

RECURSIVE StrHash(_, _)
\* hash(str), folded over the characters.
StrHash(str, acc) ==
  IF str = <<>> THEN acc
  ELSE StrHash(Tail(str), (acc * 31 + Ord(Head(str))) % 1009)

\* The generator state seed(key) sets.
SeedState(key) == StrHash(key, 7) % RandMod

\* rand.seed(key) on the instance at ref.
Seed(hp, ref, key) == [hp EXCEPT ![ref] = SeedState(key)]

\* rand.getstate() on the instance at ref.
GetState(hp, ref) == hp[ref]

\* Keeps the reseeded state.
SetStateSkipped(hp, ref, stored) == hp

\* rand.setstate(stored) on the instance at ref.
SetState(hp, ref, stored) == [hp EXCEPT ![ref] = stored]

\* rand.randint(lo, hi) from state s: lo + int(random() * (hi + 1 - lo)).
RandInt(s, lo, hi) ==
  LET s1 == RandomStep(s)
  IN [val |-> lo + ((s1 * (hi + 1 - lo)) \div RandMod), s |-> s1]

RECURSIVE Sha1Fold(_, _)
Sha1Fold(str, acc) ==
  IF str = <<>> THEN acc
  ELSE Sha1Fold(Tail(str), (acc * 33 + Ord(Head(str))) % 65536)

\* The first two bytes of hashlib.sha1(h).digest(), each in 0..255.
Sha1(h) == LET d == Sha1Fold(h, 5381) IN <<d % 256, d \div 256>>

---------------------------------------------------------------------------
(* Params *)

\* Params.__init__
ParamsInit ==
  [num_bloombits |-> 16, num_hashes |-> 2, num_cohorts |-> 64,
   prob_p |-> Float(1, 2), prob_q |-> Float(3, 4), prob_f |-> Float(1, 2),
   flag_oneprr |-> FALSE]

---------------------------------------------------------------------------
(* SimpleRandom, _RandFuncs, SimpleRandFuncs *)

\* No object: None.
None == 0

\* rand or random.Random(): fresh is the reference of the new instance.
RandOr(rand, fresh) == IF rand # None THEN rand ELSE fresh

\* SimpleRandom.__init__
SimpleRandomInit(prob_one, num_bits, rand, fresh) ==
  [prob_one |-> prob_one, num_bits |-> num_bits, rand |-> RandOr(rand, fresh)]

\* A draw at or below the probability sets the bit.
BernoulliLe(r, p) == FloatLe(r, p)

\* bit = rand_fn() < p
Bernoulli(r, p) == FloatLt(r, p)

RECURSIVE SimpleRandomLoop(_, _, _, _, _)
\* The loop of SimpleRandom.__call__ from index i, with r so far and the
\* generator in state s: the final r and generator state.
SimpleRandomLoop(p, num_bits, i, r, s) ==
  IF i >= num_bits THEN [r |-> r, s |-> s]
  ELSE LET s1 == RandomStep(s)
           bit == IF Bernoulli(RandomValue(s1), p) THEN 1 ELSE 0
       IN SimpleRandomLoop(p, num_bits, i + 1, BitOr(r, Shl(bit, i)), s1)

\* SimpleRandom.__call__ on gen: the bits, and the heap after the draws.
SimpleRandomCall(gen, hp) ==
  LET res == SimpleRandomLoop(gen.prob_one, gen.num_bits, 0, 0, hp[gen.rand])
  IN [r |-> res.r, heap |-> [hp EXCEPT ![gen.rand] = res.s]]

\* Builds q_gen without passing rand on.
SimpleRandFuncsInitOwnQ(prm, rand, fresh) ==
  [rand |-> RandOr(rand, fresh[1]),
   num_bits |-> prm.num_bloombits,
   f_gen |-> SimpleRandomInit(prm.prob_f, prm.num_bloombits, rand, fresh[2]),
   p_gen |-> SimpleRandomInit(prm.prob_p, prm.num_bloombits, rand, fresh[3]),
   q_gen |-> SimpleRandomInit(prm.prob_q, prm.num_bloombits, None, fresh[4]),
   uniform_gen |-> SimpleRandomInit(Float(1, 2), prm.num_bloombits, rand, fresh[5])]

\* SimpleRandFuncs.__init__ (with _RandFuncs.__init__): rand is the caller's
\* instance or None, fresh the references of the instances it may create.
SimpleRandFuncsInit(prm, rand, fresh) ==
  [rand |-> RandOr(rand, fresh[1]),
   num_bits |-> prm.num_bloombits,
   f_gen |-> SimpleRandomInit(prm.prob_f, prm.num_bloombits, rand, fresh[2]),
   p_gen |-> SimpleRandomInit(prm.prob_p, prm.num_bloombits, rand, fresh[3]),
   q_gen |-> SimpleRandomInit(prm.prob_q, prm.num_bloombits, rand, fresh[4]),
   uniform_gen |-> SimpleRandomInit(Float(1, 2), prm.num_bloombits, rand, fresh[5])]

---------------------------------------------------------------------------
(* get_rappor_masks, get_bf_bit *)

\* Draws the cohort from 0..num_cohorts.
AssignedCohortInclusive(s, num_cohorts) == RandInt(s, 0, num_cohorts)

\* rand_funcs.cohort_rand_fn(0, params.num_cohorts - 1)
AssignedCohort(s, num_cohorts) == RandInt(s, 0, num_cohorts - 1)

\* get_rappor_masks: the three results, the heap on return, and the state of
\* rand_funcs.rand on entry.
GetRapporMasks(user_id, word, prm, rand_funcs, hp) ==
  LET ref == rand_funcs.rand
      stored_state == GetState(hp, ref)
      h1 == IF prm.flag_oneprr THEN Seed(hp, ref, user_id \o word) ELSE hp
      c == AssignedCohort(h1[ref], prm.num_cohorts)
      h2 == [h1 EXCEPT ![ref] = c.s]
      u == SimpleRandomCall(rand_funcs.uniform_gen, h2)
      f == SimpleRandomCall(rand_funcs.f_gen, u.heap)
      h3 == IF prm.flag_oneprr THEN SetState(f.heap, ref, stored_state) ELSE f.heap
  IN [assigned_cohort |-> c.val, f_bits |-> u.r, mask_indices |-> f.r,
      heap |-> h3, entry |-> hp[ref]]

\* get_bf_bit
GetBfBit(input_word, cohort, hash_no, num_bloombits) ==
  LET h == Str(cohort) \o Str(hash_no) \o input_word
      sha1 == Sha1(h)
      a == sha1[1]
      b == sha1[2]
  IN (a + b * 256) % num_bloombits

RECURSIVE BloomLoop(_, _, _, _, _)
\* The Bloom filter loop of encode from hash_no on.
BloomLoop(word, cohort, prm, hash_no, bloom_bits_array) ==
  IF hash_no >= prm.num_hashes THEN bloom_bits_array
  ELSE BloomLoop(word, cohort, prm, hash_no + 1,
                 BitOr(bloom_bits_array,
                       Shl(1, GetBfBit(word, cohort, hash_no, prm.num_bloombits))))

---------------------------------------------------------------------------
(* Encoder *)

\* Takes the Bloom filter bits where the mask is set.
PrrSwapped(f_bits, mask_indices, bloom_bits_array) ==
  BitOr(BitAnd(f_bits, BitNot(mask_indices)), BitAnd(bloom_bits_array, mask_indices))

\* prr = (f_bits & mask_indices) | (bloom_bits_array & ~mask_indices)
Prr(f_bits, mask_indices, bloom_bits_array) ==
  BitOr(BitAnd(f_bits, mask_indices), BitAnd(bloom_bits_array, BitNot(mask_indices)))

\* irr = (p_bits & ~prr) | (q_bits & prr)
Irr(p_bits, q_bits, prr) ==
  BitOr(BitAnd(p_bits, BitNot(prr)), BitAnd(q_bits, prr))

\* Encoder.__init__: rand_funcs is <<the caller's>> or <<>> for None.
EncoderInit(prm, user_id, rand_funcs, fresh) ==
  LET rf == IF rand_funcs # <<>> THEN rand_funcs[1]
            ELSE SimpleRandFuncsInit(prm, None, fresh)
  IN [params |-> prm, user_id |-> user_id, rand_funcs |-> rf,
      p_gen |-> rf.p_gen, q_gen |-> rf.q_gen]

\* Encoder.encode: the locals at the return, and the heap.
EncodeCall(self, word, hp) ==
  LET prm == self.params
      m == GetRapporMasks(self.user_id, word, prm, self.rand_funcs, hp)
      bloom == BloomLoop(word, m.assigned_cohort, prm, 0, 0)
      prr == Prr(m.f_bits, m.mask_indices, bloom)
      p == SimpleRandomCall(self.p_gen, m.heap)
      q == SimpleRandomCall(self.q_gen, p.heap)
      irr == Irr(p.r, q.r, prr)
  IN [called |-> TRUE, word |-> word, cohort |-> m.assigned_cohort,
      f_bits |-> m.f_bits, mask_indices |-> m.mask_indices,
      bloom_bits_array |-> bloom, prr |-> prr, p_bits |-> p.r, q_bits |-> q.r,
      irr |-> irr, rand_entry |-> m.entry,
      rand_masked |-> m.heap[self.rand_funcs.rand], heap |-> q.heap]

---------------------------------------------------------------------------
(* The values the model draws. *)

Users == {<<"u", "1">>, <<"u", "2">>}

Words == {<<"v", "1">>, <<"v", "2">>}

\* (prob_p, prob_q) pairs.
ProbPairs == {<<Float(1, 2), Float(3, 4)>>, <<Float(1, 1), Float(0, 1)>>}

ProbsF == {Float(0, 1), Float(1, 2), Float(1, 1)}

HashCounts == {1, 2}

CohortCounts == {1, 3}

\* Valid Params: counts >= 1, probabilities in [0, 1].
ParamSets ==
  { [num_bloombits |-> k, num_hashes |-> h, num_cohorts |-> m,
     prob_p |-> pq[1], prob_q |-> pq[2], prob_f |-> f, flag_oneprr |-> o] :
    k \in 1..MaxBits, h \in HashCounts, m \in CohortCounts,
    pq \in ProbPairs, f \in ProbsF, o \in BOOLEAN }

\* How an Encoder gets its rand_funcs: "default" is Encoder(params, user_id),
\* "supplied" is Encoder(params, user_id, SimpleRandFuncs(params, rand)).
Modes == {"default", "supplied"}

\* The states a random.Random() seeded by the system comes up in.
EntropyStates == {1, 4}

\* The caller's random.Random of Encoder e, and the instances its
\* construction may create.
SuppliedRef(e) == 6 * e - 5
FreshRefs(e) == [i \in 1..5 |-> 6 * e - 5 + i]

MakeEncoder(prm, user_id, mode, e) ==
  IF mode = "supplied"
  THEN EncoderInit(prm, user_id,
                   <<SimpleRandFuncsInit(prm, SuppliedRef(e), FreshRefs(e))>>,
                   FreshRefs(e))
  ELSE EncoderInit(prm, user_id, <<>>, FreshRefs(e))

\* The random.Random instances an Encoder draws from.
RefsOf(self) ==
  LET rf == self.rand_funcs
  IN {rf.rand, rf.f_gen.rand, rf.p_gen.rand, rf.q_gen.rand, rf.uniform_gen.rand}

\* The instances that exist once Encoder e is built.
LiveRefs(self, mode, e) ==
  RefsOf(self) \cup (IF mode = "supplied" THEN {SuppliedRef(e)} ELSE {})

\* The initial heaps: a caller's instance in any state, a created one in a
\* state the system seeds it with.
InitialHeaps(refs, supplied) ==
  { sup @@ ent : sup \in [refs \cap supplied -> 0..(RandMod - 1)],
                 ent \in [refs \ supplied -> EntropyStates] }

NoCall ==
  [called |-> FALSE, word |-> <<>>, cohort |-> 0, f_bits |-> 0,
   mask_indices |-> 0, bloom_bits_array |-> 0, prr |-> 0, p_bits |-> 0,
   q_bits |-> 0, irr |-> 0, rand_entry |-> 0, rand_masked |-> 0]

NoMasks ==
  [seen |-> FALSE, cohort |-> 0, f_bits |-> 0, mask_indices |-> 0, prr |-> 0]

MasksOf(r) ==
  [seen |-> TRUE, cohort |-> r.cohort, f_bits |-> r.f_bits,
   mask_indices |-> r.mask_indices, prr |-> r.prr]

NoThreads == [t |-> <<>>, mixed |-> FALSE]

NoCsv == [pc |-> "idle"]

---------------------------------------------------------------------------
(* One Encoder, and two Encoders with a caller's random.Random each. *)

Init ==
  \E prm \in ParamSets, user_id \in Users, mode \in Modes :
    LET e1 == MakeEncoder(prm, user_id, mode, 1)
        supplied == IF mode = "supplied" THEN {SuppliedRef(1)} ELSE {}
    IN \E hp \in InitialHeaps(LiveRefs(e1, mode, 1), supplied) :
         /\ params = prm
         /\ enc = (1 :> e1)
         /\ heap = hp
         /\ heap0 = hp
         /\ calls = (1 :> <<>>)
         /\ last = (1 :> NoCall)
         /\ first = (1 :> [w \in Words |-> NoMasks])
         /\ th = NoThreads
         /\ csv = NoCsv

\* encoder.encode(word) on Encoder e, as one call.
Encode(e, word) ==
  /\ Len(calls[e]) < MaxCalls
  /\ \E r \in {EncodeCall(enc[e], word, heap)} :
        /\ heap' = r.heap
        /\ last' = [last EXCEPT ![e] = [x \in DOMAIN NoCall |-> r[x]]]
        /\ first' = [first EXCEPT ![e][word] = IF @.seen THEN @ ELSE MasksOf(r)]
  /\ calls' = [calls EXCEPT ![e] = Append(@, word)]
  /\ UNCHANGED <<params, enc, th, csv, heap0>>

Next == \E e \in DOMAIN enc, word \in Words : Encode(e, word)

Spec == Init /\ [][Next]_vars

\* The Params of the two-Encoder runs.
PairParamSets ==
  { prm \in ParamSets :
      /\ prm.num_hashes = 2 /\ prm.num_cohorts = 3
      /\ FloatEq(prm.prob_p, Float(1, 2))
      /\ FloatEq(prm.prob_f, Float(1, 2)) }

InitPair ==
  \E prm \in PairParamSets, user_id \in Users, s1 \in 0..(RandMod - 1) :
    \E s2 \in {s1, RandomStep(s1)} :
      LET e1 == MakeEncoder(prm, <<"u", "1">>, "supplied", 1)
          e2 == MakeEncoder(prm, user_id, "supplied", 2)
          refs == LiveRefs(e1, "supplied", 1) \cup LiveRefs(e2, "supplied", 2)
          own == SuppliedRef(1) :> s1 @@ SuppliedRef(2) :> s2
      IN \E hp \in InitialHeaps(refs \ DOMAIN own, {}) :
           /\ params = prm
           /\ enc = (1 :> e1 @@ 2 :> e2)
           /\ heap = own @@ hp
           /\ heap0 = own @@ hp
           /\ calls = (1 :> <<>> @@ 2 :> <<>>)
           /\ last = (1 :> NoCall @@ 2 :> NoCall)
           /\ first = [e \in {1, 2} |-> [w \in Words |-> NoMasks]]
           /\ th = NoThreads
           /\ csv = NoCsv

SpecPair == InitPair /\ [][Next]_vars

---------------------------------------------------------------------------
(* Claims about encode. *)

\* Encoder e draws everything from one random.Random instance.
SharedContext(e) == Cardinality(RefsOf(enc[e])) = 1

\* 2^num_bloombits
Width == 2^params.num_bloombits

\* C1: with flag_oneprr set, every encode of a word by an Encoder computes the
\* (cohort, f_bits, mask_indices) triple and the PRR that the Encoder's first
\* encode of that word computed, whatever its rand_funcs and whatever calls
\* came in between.
C1_OnePrrPerValue ==
  params.flag_oneprr =>
    \A e \in DOMAIN enc :
      last[e].called => MasksOf(last[e]) = first[e][last[e].word]

\* C3: encode returns a cohort in [0, num_cohorts) and a report in
\* [0, 2^num_bloombits), after any earlier calls.
C3_EncodeRange ==
  \A e \in DOMAIN enc :
    last[e].called =>
      /\ 0 <= last[e].cohort /\ last[e].cohort < params.num_cohorts
      /\ 0 <= last[e].irr /\ last[e].irr < Width

\* C3 witness: a second or later call returned the highest cohort of several
\* and the all-ones report, with a mask that has bits set.
C3_Witness ==
  /\ Len(calls[1]) >= 2
  /\ params.num_cohorts > 1
  /\ last[1].cohort = params.num_cohorts - 1
  /\ last[1].irr = Width - 1
  /\ last[1].mask_indices # 0

\* The p-bits and q-bits drawn from generator state s on, and the state after.
DrawsFrom(e, s) ==
  LET p == SimpleRandomLoop(enc[e].p_gen.prob_one, enc[e].p_gen.num_bits, 0, 0, s)
      q == SimpleRandomLoop(enc[e].q_gen.prob_one, enc[e].q_gen.num_bits, 0, 0, p.s)
  IN [p_bits |-> p.r, q_bits |-> q.r, s |-> q.s]

\* C7: with flag_oneprr set and one random.Random shared by all generators,
\* get_rappor_masks returns with rand_funcs.rand in the state it had on entry,
\* the p-bits and q-bits are the next draws of the stream as it was on entry,
\* and the call leaves the stream where those draws end.
C7_MasksRestoreRand ==
  \A e \in DOMAIN enc :
    (params.flag_oneprr /\ SharedContext(e) /\ last[e].called) =>
      /\ last[e].rand_masked = last[e].rand_entry
      /\ last[e].p_bits = DrawsFrom(e, last[e].rand_entry).p_bits
      /\ last[e].q_bits = DrawsFrom(e, last[e].rand_entry).q_bits
      /\ heap[enc[e].rand_funcs.rand] = DrawsFrom(e, last[e].rand_entry).s

\* C7 witness: a second call whose reseed moved the shared generator away from
\* its state on entry, and whose p-bits are not those of the reseeded stream.
C7_Witness ==
  /\ params.flag_oneprr /\ SharedContext(1)
  /\ Len(calls[1]) >= 2
  /\ SeedState(enc[1].user_id \o last[1].word) # last[1].rand_entry
  /\ last[1].p_bits # DrawsFrom(1, SeedState(enc[1].user_id \o last[1].word)).p_bits

\* C8: with prob_f = 0 the mask is all zeros and the PRR is the Bloom filter
\* vector; with prob_f = 1 the mask is all ones and the PRR is f_bits.
C8_ProbFBoundary ==
  \A e \in DOMAIN enc :
    last[e].called =>
      /\ FloatEq(params.prob_f, Float(0, 1)) =>
           /\ last[e].mask_indices = 0
           /\ last[e].prr = last[e].bloom_bits_array
      /\ FloatEq(params.prob_f, Float(1, 1)) =>
           /\ last[e].mask_indices = Width - 1
           /\ last[e].prr = last[e].f_bits

\* C8 witness: a call with prob_f = 0 whose f_bits differ from the Bloom
\* filter vector.
C8_Witness ==
  /\ FloatEq(params.prob_f, Float(0, 1))
  /\ last[1].called
  /\ last[1].f_bits # last[1].bloom_bits_array
  /\ last[1].f_bits # 0

RECURSIVE SumPow(_)
\* The integer with exactly the bits of set S.
SumPow(S) == IF S = {} THEN 0 ELSE LET b == CHOOSE x \in S : TRUE IN 2^b + SumPow(S \ {b})

\* C9: bit by bit, the PRR takes f_bits where the mask is 1 and the Bloom
\* filter bit elsewhere, the report takes q_bits where the PRR is 1 and p_bits
\* elsewhere, and the Bloom filter vector has exactly the bits
\* get_bf_bit(word, cohort, j, num_bloombits), j in [0, num_hashes).
C9_TwoStageSelection ==
  \A e \in DOMAIN enc :
    last[e].called =>
      LET c == last[e]
      IN /\ c.bloom_bits_array =
              SumPow({GetBfBit(c.word, c.cohort, j, params.num_bloombits) :
                      j \in 0..(params.num_hashes - 1)})
         /\ \A i \in 0..(params.num_bloombits - 1) :
              /\ Bit(c.prr, i) = IF Bit(c.mask_indices, i) = 1
                                 THEN Bit(c.f_bits, i)
                                 ELSE Bit(c.bloom_bits_array, i)
              /\ Bit(c.irr, i) = IF Bit(c.prr, i) = 1
                                 THEN Bit(c.q_bits, i)
                                 ELSE Bit(c.p_bits, i)

\* C9 witness: a call whose mask selects one bit but not the other, where
\* f_bits and the Bloom filter differ and so do p_bits and q_bits.
C9_Witness ==
  /\ last[1].called
  /\ params.num_bloombits = 2
  /\ last[1].mask_indices \in {1, 2}
  /\ last[1].f_bits # last[1].bloom_bits_array
  /\ last[1].p_bits # last[1].q_bits
  /\ last[1].prr \in {1, 2}

\* C6: two Encoders with the same Params and user_id, each with its own
\* random.Random started in the same state, return the same (cohort, report)
\* for the same sequence of words, with flag_oneprr off or on.
C6_PairDeterminism ==
  ( /\ DOMAIN enc = {1, 2}
    /\ enc[1].user_id = enc[2].user_id
    /\ heap0[SuppliedRef(1)] = heap0[SuppliedRef(2)]
    /\ calls[1] = calls[2]
    /\ Len(calls[1]) > 0 ) =>
      /\ last[1].cohort = last[2].cohort
      /\ last[1].irr = last[2].irr

\* C6 witness: both Encoders, same user_id and starting state, have encoded
\* the same two different words with flag_oneprr set.
C6_Witness ==
  /\ DOMAIN enc = {1, 2}
  /\ enc[1].user_id = enc[2].user_id
  /\ heap0[SuppliedRef(1)] = heap0[SuppliedRef(2)]
  /\ params.flag_oneprr
  /\ calls[1] = calls[2]
  /\ Len(calls[1]) >= 2
  /\ calls[1][1] # calls[1][2]
  /\ last[1].irr # 0

---------------------------------------------------------------------------
(* Params.from_csv, one step per row that csv.reader yields. *)

\* The header from_csv expects.
Header == <<"k", "h", "m", "p", "q", "f">>

\* The assignments of the second row, in order: the field, the column
\* (counted from 1) and the conversion.
Assignments ==
  << [field |-> "num_bloombits", col |-> 1, conv |-> "int"],
     [field |-> "num_hashes", col |-> 2, conv |-> "int"],
     [field |-> "num_cohorts", col |-> 3, conv |-> "int"],
     [field |-> "prob_p", col |-> 4, conv |-> "float"],
     [field |-> "prob_p", col |-> 5, conv |-> "float"],
     [field |-> "prob_q", col |-> 6, conv |-> "float"] >>

RECURSIVE AssignRow(_, _, _)
\* The try block from its n-th assignment on: the Params so far, and the
\* exception that ended it ("" for none).
AssignRow(row, p, n) ==
  IF n > Len(Assignments) THEN [p |-> p, exc |-> ""]
  ELSE LET a == Assignments[n]
       IN IF a.col > Len(row) THEN [p |-> p, exc |-> "IndexError"]
          ELSE LET v == IF a.conv = "int" THEN ParseInt(row[a.col])
                        ELSE ParseFloat(row[a.col])
               IN IF ~v.ok THEN [p |-> p, exc |-> "ValueError"]
                  ELSE AssignRow(row, [p EXCEPT ![a.field] = v.val], n + 1)

\* Catches ValueError only.
CaughtValueError(exc) == exc = "ValueError"

\* except (ValueError, IndexError)
Caught(exc) == exc \in {"ValueError", "IndexError"}

\* i == 0: the header row.
CsvHeader ==
  /\ csv.pc = "loop" /\ csv.i < Len(csv.rows) /\ csv.i = 0
  /\ csv' = IF csv.rows[1] # Header
            THEN [csv EXCEPT !.pc = "raised", !.exc = "Error"]
            ELSE [csv EXCEPT !.i = 1]
  /\ UNCHANGED <<params, heap, enc, calls, last, first, th, heap0>>

\* i == 1: the row of values.
CsvParams ==
  /\ csv.pc = "loop" /\ csv.i < Len(csv.rows) /\ csv.i = 1
  /\ \E r \in {AssignRow(csv.rows[2], csv.p, 1)} :
       csv' = IF r.exc = "" THEN [csv EXCEPT !.p = r.p, !.ok = TRUE, !.i = 2]
              ELSE IF Caught(r.exc)
              THEN [csv EXCEPT !.p = r.p, !.pc = "raised", !.exc = "Error"]
              ELSE [csv EXCEPT !.p = r.p, !.pc = "raised", !.exc = r.exc]
  /\ UNCHANGED <<params, heap, enc, calls, last, first, th, heap0>>

\* Any later row.
CsvExtraRow ==
  /\ csv.pc = "loop" /\ csv.i < Len(csv.rows) /\ csv.i >= 2
  /\ csv' = [csv EXCEPT !.pc = "raised", !.exc = "Error"]
  /\ UNCHANGED <<params, heap, enc, calls, last, first, th, heap0>>

\* After the loop.
CsvEnd ==
  /\ csv.pc = "loop" /\ csv.i >= Len(csv.rows)
  /\ csv' = IF ~csv.ok THEN [csv EXCEPT !.pc = "raised", !.exc = "Error"]
            ELSE [csv EXCEPT !.pc = "returned"]
  /\ UNCHANGED <<params, heap, enc, calls, last, first, th, heap0>>

IntFields == {<<"2">>, <<"0">>, <<"-", "3">>, <<"x">>}

FloatFields == {<<"0", ".", "2", "5">>, <<"0", ".", "7", "5">>,
                <<"1", ".", "5">>, <<"x">>}

\* Second rows of six fields.
FullRows ==
  { <<k, h, m, p, q, f>> :
    k \in IntFields, h \in {<<"2">>, <<"x">>}, m \in IntFields,
    p \in FloatFields, q \in FloatFields, f \in FloatFields }

GoodRow == <<<<"2">>, <<"2">>, <<"3">>, <<"0", ".", "2", "5">>,
             <<"0", ".", "7", "5">>, <<"1">>>>

\* Second rows of fewer or more fields.
OddRows == {SubSeq(GoodRow, 1, n) : n \in 0..5} \cup {GoodRow \o <<<<"9">>>>}

BadHeaders == {<<"k", "h", "m", "p", "q">>, <<"h", "k", "m", "p", "q", "f">>}

RECURSIVE RowSeqs(_, _)
\* The sequences of at most n rows of S.
RowSeqs(S, n) ==
  IF n <= 0 THEN {<<>>}
  ELSE {<<>>} \cup {<<r>> \o t : r \in S, t \in RowSeqs(S, n - 1)}

\* The inputs: what csv.reader yields, at most MaxRows rows.
CsvInputs ==
  {<<>>, <<Header>>} \cup {<<h>> : h \in BadHeaders}
  \cup {<<h, GoodRow>> : h \in BadHeaders}
  \cup {<<Header, d>> \o t : d \in FullRows \cup OddRows,
                             t \in RowSeqs({<<>>, GoodRow}, MaxRows - 2)}

InitCsv ==
  /\ csv \in { [pc |-> "loop", rows |-> rows, i |-> 0, p |-> ParamsInit,
                ok |-> FALSE, exc |-> ""] : rows \in CsvInputs }
  /\ params = ParamsInit
  /\ heap = <<>> /\ heap0 = <<>> /\ enc = <<>> /\ calls = <<>>
  /\ last = <<>> /\ first = <<>> /\ th = NoThreads

NextCsv == CsvHeader \/ CsvParams \/ CsvExtraRow \/ CsvEnd

SpecCsv == InitCsv /\ [][NextCsv]_vars

\* The second row of the input.
Row == csv.rows[2]

\* The value of field c of the second row.
IntAt(c) == ParseInt(Row[c]).val
FloatAt(c) == ParseFloat(Row[c]).val

\* C2: the Params from_csv returns holds the six columns of the second row,
\* in order: k, h, m, p, q, f.
C2_ColumnsAssigned ==
  csv.pc = "returned" =>
    /\ csv.p.num_bloombits = IntAt(1)
    /\ csv.p.num_hashes = IntAt(2)
    /\ csv.p.num_cohorts = IntAt(3)
    /\ FloatEq(csv.p.prob_p, FloatAt(4))
    /\ FloatEq(csv.p.prob_q, FloatAt(5))
    /\ FloatEq(csv.p.prob_f, FloatAt(6))

\* A probability in [0, 1].
IsProb(x) == FloatLe(Float(0, 1), x) /\ FloatLe(x, Float(1, 1))

\* C4: from_csv returns no Params for a second row with a count below 1 or a
\* probability outside [0, 1], so the Params it returns has counts >= 1 and
\* probabilities in [0, 1].
C4_RangeChecked ==
  csv.pc = "returned" =>
    /\ \A c \in 1..3 : IntAt(c) >= 1
    /\ \A c \in 4..6 : IsProb(FloatAt(c))
    /\ csv.p.num_bloombits >= 1 /\ csv.p.num_hashes >= 1 /\ csv.p.num_cohorts >= 1
    /\ IsProb(csv.p.prob_p) /\ IsProb(csv.p.prob_q) /\ IsProb(csv.p.prob_f)

\* Two rows, the header, and a second row of at least six fields that parse.
WellFormed(rows) ==
  /\ Len(rows) = 2
  /\ rows[1] = Header
  /\ Len(rows[2]) >= 6
  /\ \A c \in 1..3 : ParseInt(rows[2][c]).ok
  /\ \A c \in 4..6 : ParseFloat(rows[2][c]).ok

\* C5: from_csv returns a Params only for two rows, the header first and six
\* parsing fields second; on every other input it raises rappor.Error and no
\* other exception, and it never stops before it returned or raised.
C5_MalformedRaises ==
  csv.pc # "idle" =>
    /\ csv.pc = "returned" => WellFormed(csv.rows)
    /\ csv.pc = "raised" => csv.exc = "Error" /\ ~WellFormed(csv.rows)
    /\ csv.pc = "loop" => ENABLED NextCsv

\* C5 witness: the header and a second row of five fields, and rappor.Error.
C5_Witness ==
  /\ csv.pc = "raised" /\ csv.exc = "Error"
  /\ Len(csv.rows) = 2 /\ csv.rows[1] = Header /\ Len(csv.rows[2]) = 5

---------------------------------------------------------------------------
(* Two threads, each in one encode call on the same Encoder.  A step is one
   call on the shared random.Random; what a thread does to its own locals
   between two such calls belongs to the step before. *)

Threads == {1, 2}

\* Goes on to the IRR draws without restoring the state.
NextPcNoRestore(pc, flag_oneprr) ==
  CASE pc = "enter" -> IF flag_oneprr THEN "getstate" ELSE "cohort"
    [] pc = "getstate" -> "seed"
    [] pc = "seed" -> "cohort"
    [] pc = "cohort" -> "uniform_gen"
    [] pc = "uniform_gen" -> "f_gen"
    [] pc = "f_gen" -> "p_gen"
    [] pc = "setstate" -> "p_gen"
    [] pc = "p_gen" -> "q_gen"
    [] pc = "q_gen" -> "done"

\* The call on the generator that follows the one at pc, in encode and the
\* get_rappor_masks it calls.
NextPc(pc, flag_oneprr) ==
  CASE pc = "enter" -> IF flag_oneprr THEN "getstate" ELSE "cohort"
    [] pc = "getstate" -> "seed"
    [] pc = "seed" -> "cohort"
    [] pc = "cohort" -> "uniform_gen"
    [] pc = "uniform_gen" -> "f_gen"
    [] pc = "f_gen" -> IF flag_oneprr THEN "setstate" ELSE "p_gen"
    [] pc = "setstate" -> "p_gen"
    [] pc = "p_gen" -> "q_gen"
    [] pc = "q_gen" -> "done"

\* The locals of a thread that enters encode(word).
ThreadInit(word) ==
  [pc |-> NextPc("enter", params.flag_oneprr), word |-> word, stored_state |-> 0,
   cohort |-> 0, i |-> 0, r |-> 0, f_bits |-> 0, mask_indices |-> 0,
   p_bits |-> 0, q_bits |-> 0, prr |-> 0, irr |-> 0]

\* Thread t holds a captured state it has not restored yet.
InWindow(t) == th.t[t].pc \in {"seed", "cohort", "uniform_gen", "f_gen", "setstate"}

\* A step of thread t, which leaves its locals as loc and the heap as hp.
ThreadStep(t, loc, hp) ==
  /\ th' = [t |-> [th.t EXCEPT ![t] = loc],
            mixed |-> th.mixed \/ \E o \in Threads \ {t} : InWindow(o)]
  /\ heap' = hp
  /\ UNCHANGED <<params, enc, calls, last, first, csv, heap0>>

\* stored_state = rand_funcs.rand.getstate()
TGetState(t) ==
  /\ th.t[t].pc = "getstate"
  /\ ThreadStep(t, [th.t[t] EXCEPT !.stored_state = GetState(heap, enc[1].rand_funcs.rand),
                                   !.pc = NextPc("getstate", params.flag_oneprr)], heap)

\* rand_funcs.rand.seed(user_id + word)
TSeed(t) ==
  /\ th.t[t].pc = "seed"
  /\ ThreadStep(t, [th.t[t] EXCEPT !.pc = NextPc("seed", params.flag_oneprr)],
                Seed(heap, enc[1].rand_funcs.rand, enc[1].user_id \o th.t[t].word))

\* assigned_cohort = rand_funcs.cohort_rand_fn(0, params.num_cohorts - 1)
TCohort(t) ==
  /\ th.t[t].pc = "cohort"
  /\ \E c \in {AssignedCohort(heap[enc[1].rand_funcs.rand], params.num_cohorts)} :
       ThreadStep(t, [th.t[t] EXCEPT !.cohort = c.val, !.i = 0, !.r = 0,
                                     !.pc = NextPc("cohort", params.flag_oneprr)],
                  [heap EXCEPT ![enc[1].rand_funcs.rand] = c.s])

\* The generator whose __call__ runs at pc.
GenAt(pc) ==
  CASE pc = "uniform_gen" -> enc[1].rand_funcs.uniform_gen
    [] pc = "f_gen" -> enc[1].rand_funcs.f_gen
    [] pc = "p_gen" -> enc[1].p_gen
    [] pc = "q_gen" -> enc[1].q_gen

\* The locals once the __call__ at pc returned r; after q_gen, encode ends.
Returned(loc, pc, r) ==
  LET l1 == CASE pc = "uniform_gen" -> [loc EXCEPT !.f_bits = r]
              [] pc = "f_gen" -> [loc EXCEPT !.mask_indices = r]
              [] pc = "p_gen" ->
                   [loc EXCEPT !.p_bits = r,
                               !.prr = Prr(loc.f_bits, loc.mask_indices,
                                           BloomLoop(loc.word, loc.cohort, params, 0, 0))]
              [] pc = "q_gen" -> [loc EXCEPT !.q_bits = r, !.irr = Irr(loc.p_bits, r, loc.prr)]
  IN [l1 EXCEPT !.i = 0, !.r = 0, !.pc = NextPc(pc, params.flag_oneprr)]

\* One rand_fn() call of SimpleRandom.__call__: one turn of its loop.
TDraw(t) ==
  /\ th.t[t].pc \in {"uniform_gen", "f_gen", "p_gen", "q_gen"}
  /\ LET loc == th.t[t]
         gen == GenAt(loc.pc)
     IN \E res \in {SimpleRandomLoop(gen.prob_one, loc.i + 1, loc.i, loc.r, heap[gen.rand])} :
          ThreadStep(t,
                     IF loc.i + 1 >= gen.num_bits THEN Returned(loc, loc.pc, res.r)
                     ELSE [loc EXCEPT !.i = loc.i + 1, !.r = res.r],
                     [heap EXCEPT ![gen.rand] = res.s])

\* rand_funcs.rand.setstate(stored_state)
TSetState(t) ==
  /\ th.t[t].pc = "setstate"
  /\ ThreadStep(t, [th.t[t] EXCEPT !.pc = NextPc("setstate", params.flag_oneprr)],
                SetState(heap, enc[1].rand_funcs.rand, th.t[t].stored_state))

\* The Params of the two-thread runs: one bit, so that every __call__ is one
\* draw.
ConcParamSets ==
  { prm \in ParamSets :
      /\ prm.num_hashes = 2 /\ prm.num_cohorts = 3 /\ prm.num_bloombits = 1
      /\ FloatEq(prm.prob_p, Float(1, 2))
      /\ FloatEq(prm.prob_f, Float(1, 2)) }

InitConc ==
  \E prm \in ConcParamSets, w \in Words, s \in 0..(RandMod - 1) :
    /\ params = prm
    /\ enc = (1 :> MakeEncoder(prm, <<"u", "1">>, "supplied", 1))
    /\ heap = (SuppliedRef(1) :> s)
    /\ heap0 = (SuppliedRef(1) :> s)
    /\ calls = (1 :> <<>>)
    /\ last = (1 :> NoCall)
    /\ first = (1 :> [x \in Words |-> NoMasks])
    /\ th = [t |-> (1 :> ThreadInit(<<"v", "1">>) @@ 2 :> ThreadInit(w)),
             mixed |-> FALSE]
    /\ csv = NoCsv

NextConc ==
  \E t \in Threads :
    TGetState(t) \/ TSeed(t) \/ TCohort(t) \/ TDraw(t) \/ TSetState(t)

SpecConc == InitConc /\ [][NextConc]_vars

RECURSIVE Advance(_, _)
\* The generator state n random() calls after s.
Advance(s, n) == IF n = 0 THEN s ELSE Advance(RandomStep(s), n - 1)

\* The masks an encode of word computes when nothing runs beside it.
SerialMasks(word) ==
  LET m == GetRapporMasks(enc[1].user_id, word, params, enc[1].rand_funcs, heap0)
  IN <<m.assigned_cohort, m.f_bits, m.mask_indices>>

\* The masks thread t computed.
ThreadMasks(t) == <<th.t[t].cohort, th.t[t].f_bits, th.t[t].mask_indices>>

\* Thread t is past get_rappor_masks.
PastMasks(t) == th.t[t].pc \in {"p_gen", "q_gen", "done"}

\* The state both calls, one after the other, leave the generator in.
SerialFinal == Advance(heap0[SuppliedRef(1)], 4 * params.num_bloombits)

\* C10: with flag_oneprr set, two encode calls on one shared generator whose
\* steps between getstate and setstate do not interleave compute the masks of
\* a serial execution and leave the generator in the state a serial execution
\* leaves it in; the witness is an interleaving that does neither.
C10_SerialIsExact ==
  (params.flag_oneprr /\ DOMAIN th.t = Threads /\ ~th.mixed) =>
    /\ \A t \in Threads : PastMasks(t) => ThreadMasks(t) = SerialMasks(th.t[t].word)
    /\ (\A t \in Threads : th.t[t].pc = "done") =>
         heap[SuppliedRef(1)] = SerialFinal

\* C10 witness: both calls returned, one computed masks that no serial
\* execution computes for its word, and the generator is left in a state that
\* no serial execution leaves it in.
C10_Witness ==
  /\ params.flag_oneprr /\ DOMAIN th.t = Threads
  /\ \A t \in Threads : th.t[t].pc = "done"
  /\ \E t \in Threads : ThreadMasks(t) # SerialMasks(th.t[t].word)
  /\ heap[SuppliedRef(1)] # SerialFinal

====
